---- MODULE Spec2Model ----
(***************************************************************************)
(* The Workspace controller of provider-coder: the ExternalClient          *)
(* (Observe, Create, Update, Delete) of                                    *)
(* src/apis/coder/v1alpha1/workspace_types.go, run against a Coder remote  *)
(* service.  The remote service, the resty HTTP client, encoding/json and  *)
(* the coder command line are the environment: every response the code     *)
(* can receive from them is a nondeterministic choice.                     *)
(***************************************************************************)
EXTENDS Integers, Sequences, FiniteSets, TLC

VARIABLES
    service,     \* external.service: the CoderService built by Connect
    workspaces,  \* the remote service's workspaces: records [owner, name]
    last,        \* the last ExternalClient call: input, requests, result
    prev,        \* a summary of the call before it
    obj,         \* the managed object the poll loop reconciles
    pc,          \* the poll loop's position: "connect", "observe" or "act"
    ctx,         \* the context of the reconcile: "live" or "cancelled"
    providerConfig,  \* the ProviderConfig and the secret it names
    clients,     \* the resty clients built so far: the HostURL of each
    reconciles   \* the reconciles running side by side, one per object

vars == <<service, workspaces, last, prev, obj, pc, ctx, providerConfig,
          clients, reconciles>>

----------------------------------------------------------------------------
\* Bounds of the model.

\* The longest template list the remote service returns.
MaxTemplates == 2

\* The most resty clients built in one behaviour of concurrent reconciles.
MaxClients == 3

\* HTTP status codes the code compares against.
StatusOK == 200
StatusCreated == 201

----------------------------------------------------------------------------
\* Error values of the ExternalClient ("" is Go's nil error).

errNil == ""
errNotWorkspace == "managed resource is not a Workspace custom resource"
errDecodeUser == "failed to decode user response"
errDecodeTemplates == "failed to decode templates response"
errTemplateNotFound == "template not found"
errTrackPCUsage == "cannot track ProviderConfig usage"
errGetPC == "cannot get ProviderConfig"
errGetCreds == "cannot get credentials"
errNewClient == "cannot create new Service"
errCouldNotCreate == "could not create workspace"

----------------------------------------------------------------------------
\* The managed resources handed to the ExternalClient.  User names are
\* sequences of characters, so that stripping the dots is computed.

ObjectNames == {"w"}
UserNames == {<<"a">>, <<".", "b">>, <<"c">>, <<"d">>}
\* The organization the desired state names (spec.forProvider.org_id).
OrgIDs == {"o2"}

\* A Workspace custom resource: metadata.name and spec.forProvider.
WorkspaceCR(name, username, template, org) ==
    [kind |-> "Workspace", name |-> name, UserName |-> username,
     Template |-> template, OrgID |-> org]

\* A managed resource of another kind (the repository's Token type).
TokenCR ==
    [kind |-> "Token", name |-> "w", UserName |-> <<>>, Template |-> "", OrgID |-> ""]

Workspaces ==
    {WorkspaceCR(n, u, "base", o) : n \in ObjectNames, u \in UserNames, o \in OrgIDs}
Managed == Workspaces \cup {TokenCR}

\* strings.ReplaceAll(s, ".", "")
RECURSIVE StripDots(_)
StripDots(s) ==
    IF s = <<>> THEN <<>>
    ELSE IF Head(s) = "." THEN StripDots(Tail(s))
    ELSE <<Head(s)>> \o StripDots(Tail(s))

----------------------------------------------------------------------------
\* The remote service: its users, and the credentials' owners.

NoUser == [id |-> "", name |-> <<>>, organization_ids |-> <<>>]

\* The users of the remote service, by user name.  "d" belongs to no
\* organization; no user is named "c".
RemoteUsers ==
    {[id |-> "u1", name |-> <<"a">>, organization_ids |-> <<"o1", "o2">>],
     [id |-> "u2", name |-> <<"b">>, organization_ids |-> <<"o2">>],
     [id |-> "u3", name |-> <<"d">>, organization_ids |-> <<>>]}

LookupUser(username) ==
    IF \E u \in RemoteUsers : u.name = username
    THEN CHOOSE u \in RemoteUsers : u.name = username
    ELSE NoUser

\* The session tokens a ProviderConfig may hold, and the user each belongs to.
Tokens == {"tok-a", "tok-b"}
TokenOwner(token) == IF token = "tok-a" THEN "u1" ELSE "u2"
\* Users allowed to create workspaces for other users.
Admins == {"u1"}

\* newCoderService: the service holds the token and the URL it is given.
newCoderService(creds, coderURL) == [token |-> creds, coderurl |-> coderURL]

\* No service: what Connect leaves when it returns a nil ExternalClient.
NoService == [token |-> "", coderurl |-> ""]

\* The ProviderConfigs of the cluster: the URL of the Coder deployment and
\* the session token in the secret the credentials selector names.
ProviderConfigs == {[credentials |-> t, CoderUrl |-> "https://coder"] : t \in Tokens}

----------------------------------------------------------------------------
\* Requests and responses.

\* One request of the code: an HTTP request of the resty client, or the
\* coder command (method "EXEC").
Request(method, route, user, org, uid, name, template_id, token) ==
    [method |-> method, route |-> route, user |-> user, org |-> org,
     uid |-> uid, name |-> name, template_id |-> template_id, token |-> token]

\* The templates a templates response lists: id and name as decoded ("" is
\* a missing field).
TemplateItems ==
    {[id |-> "t1", name |-> "base"], [id |-> "t2", name |-> "base"],
     [id |-> "", name |-> "base"], [id |-> "t3", name |-> "gpu"]}

RECURSIVE SeqsUpTo(_, _)
SeqsUpTo(S, n) ==
    IF n = 0 THEN {<<>>}
    ELSE LET shorter == SeqsUpTo(S, n - 1)
         IN shorter \cup {Append(s, x) : s \in {t \in shorter : Len(t) = n - 1}, x \in S}

TemplateLists == SeqsUpTo(TemplateItems, MaxTemplates)

\* A response body: not JSON (empty, or a proxy's HTML), a JSON object (a
\* user, a workspace, or an error message: the fields it lacks decode to
\* zero values), or a JSON array of templates.
NonJSON == [kind |-> "nonjson", user |-> NoUser, items |-> <<>>]
JSONObject(user) == [kind |-> "object", user |-> user, items |-> <<>>]
JSONArray(items) == [kind |-> "array", user |-> NoUser, items |-> items]
ErrorMessage == JSONObject(NoUser)

Response(status, body) == [status |-> status, body |-> body]

\* What cmd.Output() gives of the coder command: its exit status (0 is a
\* nil error, -1 a command that could not be run); the output is only printed.
Exit(status) == Response(status, NonJSON)

\* What the resty client hands back when the request fails before any
\* status arrives (connection failure, timeout): status 0 and no body; and
\* the 5xx answer of the service, a JSON message.
ConnectionFailure == Response(0, NonJSON)
TransientResponses == {ConnectionFailure, Response(500, ErrorMessage)}

IsTransient(resp) == resp.status = 0 \/ resp.status \in 500..599

----------------------------------------------------------------------------
\* The remote service's answers.

\* GET /api/v2/users/me/workspace/{name}: the workspace of that name owned
\* by the owner of the request's token.
WorkspaceAnswer(req) ==
    IF [owner |-> TokenOwner(req.token), name |-> req.name] \in workspaces
    THEN Response(200, JSONObject(NoUser))
    ELSE Response(404, ErrorMessage)

\* GET /api/v2/users/{name}: the user of that name.
UserAnswer(req) ==
    IF LookupUser(req.user) # NoUser
    THEN Response(200, JSONObject(LookupUser(req.user)))
    ELSE Response(404, ErrorMessage)

\* GET /api/v2/organizations/{org}/templates: some list of templates.
TemplatesAnswers(req) == {Response(200, JSONArray(tl)) : tl \in TemplateLists}

\* The statuses with which the service reports a created workspace.
CreatedStatuses == {200, 201}

\* POST /api/v2/organizations/{org}/members/{uid}/workspaces: the answer
\* and the workspaces after it.  A workspace is created for uid unless the
\* token's owner may not create it (403) or uid already owns one of that
\* name (409).
CreateWorkspaceAnswers(req) ==
    LET w == [owner |-> req.uid, name |-> req.name]
        caller == TokenOwner(req.token)
    IN IF caller # req.uid /\ caller \notin Admins
       THEN {[resp |-> Response(403, ErrorMessage), ws |-> workspaces]}
       ELSE IF w \in workspaces
       THEN {[resp |-> Response(409, ErrorMessage), ws |-> workspaces]}
       ELSE {[resp |-> Response(st, JSONObject(NoUser)), ws |-> workspaces \cup {w}] :
                st \in CreatedStatuses}

\* Every answer a request can get: the service's, or a transient failure
\* that leaves the service as it was.
Unchanged(resps) == {[resp |-> r, ws |-> workspaces] : r \in resps}
Answers(req) ==
    Unchanged(TransientResponses) \cup
    CASE req.route = "users/me/workspace" -> Unchanged({WorkspaceAnswer(req)})
      [] req.route = "users" -> Unchanged({UserAnswer(req)})
      [] req.route = "templates" -> Unchanged(TemplatesAnswers(req))
      [] req.route = "workspaces" -> CreateWorkspaceAnswers(req)

\* /usr/local/bin/coder delete user/name --yes: exit status 0 and the
\* workspace gone; or exit status 1 and nothing changed, when no such
\* workspace exists, the token's owner may not delete it, or the service
\* fails; or the command cannot be run at all (status -1).
CommandAnswers(cmd) ==
    LET w == [owner |-> LookupUser(cmd.user).id, name |-> cmd.name]
        caller == TokenOwner(cmd.token)
    IN Unchanged({Exit(1), Exit(-1)}) \cup
       IF w \in workspaces /\ (caller = w.owner \/ caller \in Admins)
       THEN {[resp |-> Exit(0), ws |-> workspaces \ {w}]}
       ELSE {}

----------------------------------------------------------------------------
\* encoding/json as the code uses it.

\* json.Unmarshal(body, &user): an error unless the body is a JSON object;
\* the fields the object lacks stay zero.
DecodeUser(body) ==
    [ok |-> body.kind = "object", user |-> body.user]

\* json.Unmarshal(body, &templates): an error unless the body is a JSON array.
DecodeTemplates(body) ==
    [ok |-> body.kind = "array", templates |-> body.items]

----------------------------------------------------------------------------
\* The record of one ExternalClient call.

\* What a call gives back: it returns (an error or nil, for Observe the
\* observation, and the connection details, which every call leaves
\* empty), or it panics.
Returned(err, exists, upToDate) ==
    [outcome |-> "returned", err |-> err, exists |-> exists, upToDate |-> upToDate,
     details |-> {}]
Panicked ==
    [outcome |-> "panic", err |-> errNil, exists |-> FALSE, upToDate |-> FALSE,
     details |-> {}]

NoCall ==
    [op |-> "none", mg |-> TokenCR, pre |-> workspaces, calls |-> <<>>, resps |-> <<>>,
     res |-> Returned(errNil, FALSE, FALSE), ctx |-> "live"]

\* What is kept of the call before the last: its operation, what it gave
\* back, and whether it changed the remote service's workspaces.
Summary(call) ==
    [op |-> call.op, res |-> call.res, changed |-> call.pre # workspaces]

\* The call op(ctx, mg) issued the requests calls, got the answers resps,
\* left the remote service with the workspaces ws and gave back res.
Called(op, mg, calls, resps, ws, res) ==
    /\ last' = [op |-> op, mg |-> mg, pre |-> workspaces, calls |-> calls,
                resps |-> resps, res |-> res, ctx |-> ctx]
    /\ prev' = Summary(last)
    /\ workspaces' = ws

----------------------------------------------------------------------------
\* connector.Connect

\* What Connect finds in the cluster: the providerConfigRef of the object
\* as this reconcile read it ("none": the object has no reference, "gone":
\* it names a ProviderConfig that does not exist), whether the usage can be
\* written, whether the secret can be read, and whether the client factory
\* succeeds.  (newCoderService, the factory Setup wires in, never fails;
\* Connect handles the error of whatever factory the connector holds.)
ProviderConfigRefs == {"default", "none", "gone"}
ConnectEnvs ==
    [ref : ProviderConfigRefs, usage : BOOLEAN, secret : BOOLEAN, factory : BOOLEAN]

\* One step of Connect and its outcome (status 0 is a nil error).
Step(route, name, token) == Request("CALL", route, <<>>, "", "", name, "", token)
StepResult(ok) == Response(IF ok THEN 0 ELSE 1, NonJSON)

\* c.usage.Track: fails on an object without a reference, or when the
\* usage cannot be written.
Tracked(env) == env.ref # "none" /\ env.usage
\* c.kube.Get of the ProviderConfig the reference names.
GotProviderConfig(env) == env.ref = "default"

\* Connect as it would be if it did not look at the extractor's error.
CredentialsAssumed(env) == TRUE

\* resource.CommonCredentialExtractor, and the test of its error.
CredentialsResolved(env) == env.secret

\* What Connect does in the cluster env for the object mg with the
\* ProviderConfig config: the steps it takes, their outcomes, the error
\* it returns and the service of the ExternalClient it returns.
ConnectResult(mg, config, env) ==
    LET track == Step("usage.Track", mg.name, "")
        get == Step("kube.Get", env.ref, "")
        extract == Step("CommonCredentialExtractor", env.ref, "")
        data == IF env.secret THEN config.credentials ELSE ""
        new == Step("newServiceFn", config.CoderUrl, data)
        Failed(calls, err) ==
            [calls |-> calls,
             resps |-> [i \in 1..Len(calls) |-> StepResult(i < Len(calls))],
             err |-> err, service |-> NoService]
    IN  IF mg.kind # "Workspace" THEN Failed(<<>>, errNotWorkspace)
        ELSE IF ~Tracked(env) THEN Failed(<<track>>, errTrackPCUsage)
        ELSE IF ~GotProviderConfig(env) THEN Failed(<<track, get>>, errGetPC)
        ELSE IF ~CredentialsResolved(env)
        THEN Failed(<<track, get, extract>>, errGetCreds)
        ELSE IF ~env.factory THEN Failed(<<track, get, extract, new>>, errNewClient)
        ELSE [calls |-> <<track, get, extract, new>>,
              resps |-> <<StepResult(TRUE), StepResult(TRUE), StepResult(env.secret),
                          StepResult(TRUE)>>,
              err |-> errNil, service |-> newCoderService(data, config.CoderUrl)]

ConnectCall(mg) ==
    \E env \in ConnectEnvs :
       LET r == ConnectResult(mg, providerConfig, env)
       IN /\ Called("Connect", mg, r.calls, r.resps, workspaces,
                    Returned(r.err, FALSE, FALSE))
          /\ service' = r.service

----------------------------------------------------------------------------
\* external.Observe

\* Observe as it would be if it refreshed the workspace with a write.
ObserveRequestWriting(svc, mg) ==
    Request("PUT", "users/me/workspace", <<>>, "", "", mg.name, "", svc.token)

ObserveRequest(svc, mg) ==
    Request("GET", "users/me/workspace", <<>>, "", "", mg.name, "", svc.token)

\* Observe as it would be if it compared the workspace found with the
\* desired state and found it diverging.
ObservationDiverging(resp) ==
    IF resp.status # StatusOK
    THEN Returned(errNil, FALSE, FALSE)
    ELSE Returned(errNil, TRUE, FALSE)

\* The observation made of the response: the error of the request is
\* dropped, and any status but 200 is "does not exist".
Observation(resp) ==
    IF resp.status # StatusOK
    THEN Returned(errNil, FALSE, FALSE)
    ELSE Returned(errNil, TRUE, TRUE)

ObserveCall(mg) ==
    IF mg.kind # "Workspace"
    THEN Called("Observe", mg, <<>>, <<>>, workspaces,
                Returned(errNotWorkspace, FALSE, FALSE))
    ELSE LET req == ObserveRequest(service, mg)
         IN \E a \in Answers(req) :
               Called("Observe", mg, <<req>>, <<a.resp>>, a.ws, Observation(a.resp))

----------------------------------------------------------------------------
\* external.Update

\* Update as it would be if it wrote the desired state to the workspace.
UpdateCallWriting(mg) ==
    LET req == Request("PUT", "users/me/workspace", <<>>, "", "", mg.name, "",
                       service.token)
    IN Called("Update", mg, <<req>>, <<Response(200, JSONObject(NoUser))>>, workspaces,
              Returned(errNil, FALSE, FALSE))

UpdateCall(mg) ==
    IF mg.kind # "Workspace"
    THEN Called("Update", mg, <<>>, <<>>, workspaces,
                Returned(errNotWorkspace, FALSE, FALSE))
    ELSE Called("Update", mg, <<>>, <<>>, workspaces, Returned(errNil, FALSE, FALSE))

----------------------------------------------------------------------------
\* external.Delete

\* The external name as it would be without the object's name.
ExternalNameOfUser(mg) == StripDots(mg.UserName) \o <<"/">>

\* username + "/" + cr.GetName(): the name the command addresses the
\* workspace by, as a sequence of characters (the object names of the model
\* are one character long).
ExternalName(mg) == StripDots(mg.UserName) \o <<"/">> \o <<mg.name>>

DeleteCommand(svc, mg) ==
    Request("EXEC", "coder delete", StripDots(mg.UserName), "", "", mg.name, "",
            svc.token)

\* Delete as it would be if it returned the command's error.
DeleteReturnPropagating(status) ==
    IF status # 0 THEN Returned("could not run command", FALSE, FALSE)
    ELSE Returned(errNil, FALSE, FALSE)

\* What Delete returns after the command: its error is printed, and nil
\* is returned either way.
DeleteReturn(status) == Returned(errNil, FALSE, FALSE)

\* Delete as it would be without the assertion of the resource's type.
DeleteCallUnasserted(mg) ==
    LET cmd == DeleteCommand(service, mg)
    IN \E a \in CommandAnswers(cmd) :
          Called("Delete", mg, <<cmd>>, <<a.resp>>, a.ws, DeleteReturn(a.resp.status))

DeleteCall(mg) ==
    IF mg.kind # "Workspace"
    THEN Called("Delete", mg, <<>>, <<>>, workspaces,
                Returned(errNotWorkspace, FALSE, FALSE))
    ELSE LET cmd == DeleteCommand(service, mg)
         IN \E a \in CommandAnswers(cmd) :
               Called("Delete", mg, <<cmd>>, <<a.resp>>, a.ws, DeleteReturn(a.resp.status))

----------------------------------------------------------------------------
\* external.Create

\* The user lookup as it would be with the user name as it is written.
UserRequestUnstripped(svc, mg) ==
    Request("GET", "users", mg.UserName, "", "", "", "", svc.token)

UserRequest(svc, mg) ==
    Request("GET", "users", StripDots(mg.UserName), "", "", "", "", svc.token)

\* The templates of the first organization of the user.
TemplatesRequest(svc, user) ==
    Request("GET", "templates", <<>>, user.organization_ids[1], "", "", "", svc.token)

\* The loop as it would be without the comparison of the names.
FindAnyTemplateID(templates, name) ==
    IF templates = <<>> THEN "" ELSE Head(templates).id

\* The loop over the templates: the id of the first template of that name,
\* "" when there is none.
RECURSIVE FindTemplateID(_, _)
FindTemplateID(templates, name) ==
    IF templates = <<>> THEN ""
    ELSE IF Head(templates).name = name THEN Head(templates).id
    ELSE FindTemplateID(Tail(templates), name)

\* templateID == "" is "template not found".
TemplateFound(templateID) == templateID # ""

\* The creation request: for the user found, in the user's first
\* organization, with the template id and the object's name as its body.
CreateRequest(svc, mg, user, templateID) ==
    Request("POST", "workspaces", <<>>, user.organization_ids[1], user.id, mg.name,
            templateID, svc.token)

\* The comparison as it would be if it took every 2xx status as success.
CreateAccepted2xx(status) == status \in 200..299

\* Whether the status of the creation response is taken as success.
CreateAccepted(status) == status = StatusCreated

CreateReturn(status) ==
    IF ~CreateAccepted(status)
    THEN Returned(errCouldNotCreate, FALSE, FALSE)
    ELSE Returned(errNil, FALSE, FALSE)

CreateCall(mg) ==
    IF mg.kind # "Workspace"
    THEN Called("Create", mg, <<>>, <<>>, workspaces,
                Returned(errNotWorkspace, FALSE, FALSE))
    ELSE
    LET req1 == UserRequest(service, mg) IN
    \E a1 \in Answers(req1) :
      LET du == DecodeUser(a1.resp.body) IN
      IF ~du.ok
      THEN Called("Create", mg, <<req1>>, <<a1.resp>>, workspaces,
                  Returned(errDecodeUser, FALSE, FALSE))
      ELSE IF Len(du.user.organization_ids) = 0
      THEN \* user.Organization_ids[0]: index out of range
           Called("Create", mg, <<req1>>, <<a1.resp>>, workspaces, Panicked)
      ELSE
      LET req2 == TemplatesRequest(service, du.user) IN
      \E a2 \in Answers(req2) :
        LET dt == DecodeTemplates(a2.resp.body)
            templateID == FindTemplateID(dt.templates, mg.Template)
        IN
        IF ~dt.ok
        THEN Called("Create", mg, <<req1, req2>>, <<a1.resp, a2.resp>>, workspaces,
                    Returned(errDecodeTemplates, FALSE, FALSE))
        ELSE IF ~TemplateFound(templateID)
        THEN Called("Create", mg, <<req1, req2>>, <<a1.resp, a2.resp>>, workspaces,
                    Returned(errTemplateNotFound, FALSE, FALSE))
        ELSE
        LET req3 == CreateRequest(service, mg, du.user, templateID) IN
        \E a3 \in Answers(req3) :
          Called("Create", mg, <<req1, req2, req3>>, <<a1.resp, a2.resp, a3.resp>>,
                 a3.ws, CreateReturn(a3.resp.status))

----------------------------------------------------------------------------
\* The ExternalClient called by any caller, in any order, for one managed
\* resource.

\* The workspaces the remote service may hold before the first call.
InitialWorkspaces == {[owner |-> "u1", name |-> "w"]}

\* A managed object as the poll loop first sees it: not yet observed, not
\* marked for deletion, nothing created for it.
ManagedObject(mg) ==
    [mg |-> mg, phase |-> "Unknown", deleting |-> FALSE, created |-> FALSE]

\* Connect has built the service from the credentials of the ProviderConfig;
\* nothing has been called yet.
Init ==
    /\ providerConfig \in ProviderConfigs
    /\ service = newCoderService(providerConfig.credentials, providerConfig.CoderUrl)
    /\ workspaces \in SUBSET InitialWorkspaces
    /\ last = NoCall
    /\ prev = Summary(NoCall)
    /\ obj \in {ManagedObject(m) : m \in Managed}
    /\ pc = "observe"
    /\ ctx = "live"
    /\ clients = <<>>
    /\ reconciles = <<>>

Observe == ObserveCall(obj.mg) /\ UNCHANGED <<service, obj, pc, ctx, providerConfig, clients, reconciles>>
Create == CreateCall(obj.mg) /\ UNCHANGED <<service, obj, pc, ctx, providerConfig, clients, reconciles>>
Update == UpdateCall(obj.mg) /\ UNCHANGED <<service, obj, pc, ctx, providerConfig, clients, reconciles>>
Delete == DeleteCall(obj.mg) /\ UNCHANGED <<service, obj, pc, ctx, providerConfig, clients, reconciles>>

Next == Observe \/ Create \/ Update \/ Delete

Spec == Init /\ [][Next]_vars

----------------------------------------------------------------------------
\* The connector and the ExternalClient called by any caller for one managed
\* resource, of any kind: Connect at any time, and the calls of the
\* ExternalClient while the caller holds one (a Connect that fails returns
\* none).

CallerConnect ==
    /\ ConnectCall(obj.mg)
    /\ UNCHANGED <<obj, pc, ctx, providerConfig, clients, reconciles>>
CallerObserve == service # NoService /\ Observe
CallerCreate == service # NoService /\ Create
CallerUpdate == service # NoService /\ Update
CallerDelete == service # NoService /\ Delete

CallerNext ==
    CallerConnect \/ CallerObserve \/ CallerCreate \/ CallerUpdate \/ CallerDelete

CallerSpec == Init /\ [][CallerNext]_vars

----------------------------------------------------------------------------
\* The poll loop of the managed reconciler that Setup builds around the
\* ExternalClient: on every poll it observes the object's external
\* resource and then creates, updates or deletes it, or does nothing.

\* The workspace that Create makes for the object and Delete removes.
TargetWorkspace(mg) ==
    [owner |-> LookupUser(StripDots(mg.UserName)).id, name |-> mg.name]

PollInit ==
    /\ providerConfig \in ProviderConfigs
    /\ service = NoService
    /\ workspaces \in SUBSET InitialWorkspaces
    /\ last = NoCall
    /\ prev = Summary(NoCall)
    /\ obj \in {ManagedObject(m) : m \in Workspaces}
    /\ pc = "connect"
    /\ ctx = "live"
    /\ clients = <<>>
    /\ reconciles = <<>>

\* The object is deleted in the cluster: it stays, marked for deletion,
\* until the loop finalises it.  A reconcile works on the object as it read
\* it, so the mark is seen by the next one.
MarkForDeletion ==
    /\ pc = "connect"
    /\ obj.phase # "Terminal"
    /\ ~obj.deleting
    /\ obj' = [obj EXCEPT !.deleting = TRUE]
    /\ UNCHANGED <<service, workspaces, last, prev, pc, ctx, providerConfig, clients, reconciles>>

\* A reconcile begins: Connect gives the ExternalClient, or the error that
\* ends the reconcile.
PollConnect ==
    /\ pc = "connect"
    /\ obj.phase # "Terminal"
    /\ ConnectCall(obj.mg)
    /\ pc' = IF last'.res.err = errNil THEN "observe" ELSE "connect"
    /\ UNCHANGED <<obj, ctx, providerConfig, clients, reconciles>>

\* The context of the reconcile is cancelled (the process shuts down, the
\* reconcile's deadline passes) between Connect and the calls that follow.
Cancel ==
    /\ pc \in {"observe", "act"}
    /\ ctx = "live"
    /\ ctx' = "cancelled"
    /\ UNCHANGED <<service, workspaces, last, prev, obj, pc, providerConfig, clients, reconciles>>

\* The state the observation puts the object in.  An object marked for
\* deletion whose resource does not exist is finalised.
PhaseAfter(o, res) ==
    IF res.outcome # "returned" \/ res.err # errNil THEN o.phase
    ELSE IF o.deleting THEN (IF res.exists THEN "Deleting" ELSE "Terminal")
    ELSE IF ~res.exists THEN "Absent"
    ELSE IF ~res.upToDate THEN "OutOfSync"
    ELSE "InSync"

\* The reconcile ends when nothing is left to call; the next one has a
\* context of its own.
PollObserve ==
    /\ pc = "observe"
    /\ ObserveCall(obj.mg)
    /\ obj' = [obj EXCEPT !.phase = PhaseAfter(obj, last'.res)]
    /\ pc' = IF obj'.phase \in {"Absent", "OutOfSync", "Deleting"} THEN "act"
             ELSE "connect"
    /\ ctx' = IF pc' = "connect" THEN "live" ELSE ctx
    /\ UNCHANGED <<service, providerConfig, clients, reconciles>>

\* The call the object's state asks for; the next poll observes again.
PollAct ==
    /\ pc = "act"
    /\ IF obj.phase = "Absent" THEN CreateCall(obj.mg)
       ELSE IF obj.phase = "OutOfSync" THEN UpdateCall(obj.mg)
       ELSE DeleteCall(obj.mg)
    /\ obj' = [obj EXCEPT !.phase = "Unknown",
                          !.created = @ \/ (obj.phase = "Absent" /\ workspaces' # workspaces)]
    /\ pc' = "connect"
    /\ ctx' = "live"
    /\ UNCHANGED <<service, providerConfig, clients, reconciles>>

PollNext == MarkForDeletion \/ PollConnect \/ Cancel \/ PollObserve \/ PollAct

PollSpec == PollInit /\ [][PollNext]_vars

----------------------------------------------------------------------------
\* Reconciles of two objects side by side: each worker of the controller
\* runs Connect and then the requests of its ExternalClient, a request
\* being two steps on the service's resty client: SetHostURL, which writes
\* the client's HostURL, and the send, which reads it.

Reconcilers == {1, 2}

\* The ProviderConfigs the two objects may name, as they are when read.
Endpoints == {"https://coder", "https://coder.example"}
ConcConfigs == [credentials : Tokens, CoderUrl : Endpoints]

NoRequest == [url |-> "", token |-> ""]

\* newCoderService as it would be with one client kept for every service.
SharedClient(cs) == 1

\* resty.New(): a client of its own for every service built.
NewClient(cs) == Len(cs) + 1

ConcInit ==
    /\ clients = <<>>
    /\ reconciles \in
         [Reconcilers -> [config : ConcConfigs, pc : {"connect"}, service : {NoService},
                          pCLI : {0}, resolved : {[credentials |-> "", CoderUrl |-> ""]},
                          sent : {NoRequest}]]
    /\ service = NoService
    /\ workspaces = {}
    /\ last = NoCall
    /\ prev = Summary(NoCall)
    /\ obj = ManagedObject(TokenCR)
    /\ pc = "connect"
    /\ ctx = "live"
    /\ providerConfig = [credentials |-> "", CoderUrl |-> ""]

\* The ProviderConfig of worker w's object, or its secret, is edited
\* between two reconciles.
ConcRotate(w) ==
    /\ reconciles[w].pc = "connect"
    /\ \E c \in ConcConfigs \ {reconciles[w].config} :
          reconciles' = [reconciles EXCEPT ![w].config = c]
    /\ UNCHANGED <<service, workspaces, last, prev, obj, pc, ctx, providerConfig,
                   clients>>

\* Connect of worker w: the ProviderConfig and its secret are read, and
\* newCoderService builds the service of this reconcile's ExternalClient.
ConcConnect(w) ==
    /\ reconciles[w].pc = "connect"
    /\ Len(clients) < MaxClients
    /\ LET config == reconciles[w].config
           id == NewClient(clients)
       IN /\ clients' = IF id > Len(clients) THEN Append(clients, "") ELSE clients
          /\ reconciles' =
                [reconciles EXCEPT
                   ![w].pc = "set",
                   ![w].resolved = config,
                   ![w].service = newCoderService(config.credentials, config.CoderUrl),
                   ![w].pCLI = id,
                   ![w].sent = NoRequest]
    /\ UNCHANGED <<service, workspaces, last, prev, obj, pc, ctx, providerConfig>>

\* c.service.pCLI.SetHostURL(c.service.coderurl)
ConcSetHostURL(w) ==
    /\ reconciles[w].pc = "set"
    /\ clients' = [clients EXCEPT ![reconciles[w].pCLI] = reconciles[w].service.coderurl]
    /\ reconciles' = [reconciles EXCEPT ![w].pc = "send"]
    /\ UNCHANGED <<service, workspaces, last, prev, obj, pc, ctx, providerConfig>>

\* R()...SetHeader("Coder-Session-Token", c.service.token).Get(path): the
\* request goes to the client's HostURL with the service's token.  The
\* ExternalClient then makes another request, or the reconcile ends.
ConcSend(w) ==
    /\ reconciles[w].pc = "send"
    /\ \E then \in {"set", "connect"} :
          reconciles' =
            [reconciles EXCEPT
               ![w].pc = then,
               ![w].sent = [url |-> clients[reconciles[w].pCLI],
                            token |-> reconciles[w].service.token]]
    /\ UNCHANGED <<service, workspaces, last, prev, obj, pc, ctx, providerConfig,
                   clients>>

ConcStep(w) == ConcConnect(w) \/ ConcSetHostURL(w) \/ ConcSend(w)

ConcNext == \E w \in Reconcilers : ConcRotate(w) \/ ConcStep(w)

ConcSpec == ConcInit /\ [][ConcNext]_vars

----------------------------------------------------------------------------
\* Properties of the ExternalClient.

\* The last call was op, for a Workspace, and ran to its requests.
Ran(op) == last.op = op /\ last.mg.kind = "Workspace"
ReturnedNil(res) == res.outcome = "returned" /\ res.err = errNil
ReturnedError(res) == res.outcome = "returned" /\ res.err # errNil
Is2xx(status) == status \in 200..299

\* C1: an Observe whose lookup fails transiently (connection failure,
\* timeout, 5xx) returns an error, and so reports no "does not exist".
C1_TransientObserveReturnsError ==
    (Ran("Observe") /\ IsTransient(last.resps[1])) => ReturnedError(last.res)

\* C2: a Create called while the object's workspace already exists on the
\* remote service (no request failing transiently, the token allowed to
\* create it) returns success, and the service holds that one workspace.
C2_CreateIsSafeToRetry ==
    (/\ Ran("Create")
     /\ TargetWorkspace(last.mg) \in last.pre
     /\ Len(last.resps) = 3
     /\ \A i \in 1..3 : ~IsTransient(last.resps[i])
     /\ last.resps[3].status # 403)
    => ReturnedNil(last.res) /\ TargetWorkspace(last.mg) \in workspaces

\* C3: the Observe that follows a successful Create of the same object,
\* and gets an answer from the remote service, reports that the resource
\* exists.
C3_ObserveAfterCreateExists ==
    (/\ prev.op = "Create" /\ ReturnedNil(prev.res)
     /\ Ran("Observe")
     /\ ~IsTransient(last.resps[1]))
    => last.res.exists

\* C4: a Delete whose command fails while the object's workspace exists
\* returns an error.
C4_DeleteFailurePropagates ==
    (/\ Ran("Delete")
     /\ TargetWorkspace(last.mg) \in last.pre
     /\ last.resps[1].status # 0)
    => ReturnedError(last.res)

\* C5: of two Deletes in a row, the second on an absent workspace, both
\* return success and the second leaves the remote service as the first
\* left it.
C5_DeleteIdempotent ==
    (/\ prev.op = "Delete"
     /\ Ran("Delete")
     /\ TargetWorkspace(last.mg) \notin last.pre)
    => /\ ReturnedNil(prev.res)
       /\ ReturnedNil(last.res)
       /\ workspaces = last.pre

\* The first Delete removed the workspace, and the second ran the command
\* on the absent workspace and returned nil.
C5_Witness ==
    /\ prev.op = "Delete" /\ prev.changed
    /\ Ran("Delete")
    /\ TargetWorkspace(last.mg) \notin last.pre
    /\ last.resps[1].status # 0
    /\ ReturnedNil(last.res)

\* C6: an object marked for deletion is not finalised (on an Observe that
\* got an answer from the remote service) while the workspace created for
\* it is still on the remote service.
C6_NoFinaliseWhileWorkspaceExists ==
    (/\ obj.phase = "Terminal"
     /\ obj.created
     /\ ~IsTransient(last.resps[1]))
    => TargetWorkspace(obj.mg) \notin workspaces

\* C7: the requests of an Observe are all GETs, and the remote service's
\* workspaces are after it what they were before it.
C7_ObserveOnlyReads ==
    last.op = "Observe"
    => /\ \A i \in 1..Len(last.calls) : last.calls[i].method = "GET"
       /\ workspaces = last.pre

\* An Observe that found the workspace on a remote service that holds some.
C7_Witness ==
    /\ Ran("Observe")
    /\ Len(last.calls) = 1
    /\ last.res.exists
    /\ last.pre # {}

\* C8: a Create that got a template list either posts the id, not empty,
\* of a template of the list with the desired name, or returns "template
\* not found" without a POST.
C8_TemplateResolvedOrNotFound ==
    (/\ Ran("Create")
     /\ Len(last.resps) >= 2
     /\ last.resps[2].body.kind = "array")
    => LET tl == last.resps[2].body.items
           posts == {i \in 1..Len(last.calls) : last.calls[i].method = "POST"}
       IN \/ /\ posts = {3}
             /\ last.calls[3].template_id # ""
             /\ \E i \in 1..Len(tl) :
                   /\ tl[i].name = last.mg.Template
                   /\ tl[i].id = last.calls[3].template_id
          \/ /\ posts = {}
             /\ last.res = Returned(errTemplateNotFound, FALSE, FALSE)

\* A Create that posted the id of the list's second template, the first
\* being of another name.
C8_Witness ==
    /\ Ran("Create")
    /\ Len(last.calls) = 3
    /\ Len(last.resps[2].body.items) = 2
    /\ last.resps[2].body.items[1].name # last.mg.Template
    /\ last.calls[3].template_id = last.resps[2].body.items[2].id

\* A Create that found no template of the desired name in a list that is
\* not empty.
C8_WitnessNotFound ==
    /\ Ran("Create")
    /\ Len(last.calls) = 2
    /\ last.resps[2].body.kind = "array"
    /\ last.resps[2].body.items # <<>>
    /\ last.res.err = errTemplateNotFound

\* C9: a Create whose user lookup finds no user (a not-found answer, or a
\* user with no organization ids) returns an error after that one request.
C9_UserNotFoundReturnsError ==
    (/\ Ran("Create")
     /\ ~IsTransient(last.resps[1])
     /\ last.resps[1].body.kind = "object"
     /\ last.resps[1].body.user.organization_ids = <<>>)
    => ReturnedError(last.res) /\ Len(last.calls) = 1

\* C10, as claimed: Create returns success if and only if its creation
\* POST was answered with a 2xx status.
C10_SuccessIff2xx ==
    last.op = "Create"
    => (ReturnedNil(last.res)
        <=> (Len(last.resps) = 3 /\ Is2xx(last.resps[3].status)))

\* C10, as amended: Create returns success if and only if its creation
\* POST was answered with status 201; any other answer to the POST, 2xx
\* or not, gives the "could not create workspace" error.
C10_SuccessIffCreated ==
    last.op = "Create"
    => /\ ReturnedNil(last.res)
          <=> (Len(last.resps) = 3 /\ last.resps[3].status = StatusCreated)
       /\ (Len(last.resps) = 3 /\ last.resps[3].status # StatusCreated)
          => last.res = Returned(errCouldNotCreate, FALSE, FALSE)

\* A Create whose POST was answered 200, the workspace created, and that
\* returned the error.
C10_Witness ==
    /\ Ran("Create")
    /\ Len(last.resps) = 3
    /\ last.resps[3].status = 200
    /\ TargetWorkspace(last.mg) \in workspaces \ last.pre
    /\ ReturnedError(last.res)

\* The user lookup of the call found the user: a 200 answer with a user
\* that has an id and organization ids.
UserLookupSucceeded(call) ==
    /\ Len(call.resps) >= 1
    /\ call.resps[1].status = 200
    /\ call.resps[1].body.kind = "object"
    /\ call.resps[1].body.user.id # ""
    /\ call.resps[1].body.user.organization_ids # <<>>

\* The indices, in the template list tl, of the first template named name,
\* if it has an id.
FirstNamed(tl, name) ==
    {i \in 1..Len(tl) : /\ tl[i].name = name
                        /\ tl[i].id # ""
                        /\ \A j \in 1..(i - 1) : tl[j].name # name}

\* The templates lookup of the call found the template: a 200 answer with
\* a list in which the first template of the desired name has an id.
TemplateLookupSucceeded(call) ==
    /\ Len(call.resps) >= 2
    /\ call.resps[2].status = 200
    /\ call.resps[2].body.kind = "array"
    /\ FirstNamed(call.resps[2].body.items, call.mg.Template) # {}

Posts(call) == {i \in 1..Len(call.calls) : call.calls[i].method = "POST"}
NotDot(c) == c # "."

\* C11: a Create whose user lookup and templates lookup both succeed
\* issues one POST, after the two lookups, with the template id resolved
\* and the object's name, for the user looked up under the desired user
\* name without its dots; any other Create issues no POST.
C11_OnePostAfterLookups ==
    last.op = "Create"
    => /\ Len(last.calls) >= 1
          => last.calls[1].user = SelectSeq(last.mg.UserName, NotDot)
       /\ IF UserLookupSucceeded(last) /\ TemplateLookupSucceeded(last)
          THEN /\ Posts(last) = {3}
               /\ last.calls[1].method = "GET" /\ last.calls[1].route = "users"
               /\ last.calls[2].method = "GET" /\ last.calls[2].route = "templates"
               /\ last.calls[3].name = last.mg.name
               /\ last.calls[3].uid = last.resps[1].body.user.id
               /\ \E i \in FirstNamed(last.resps[2].body.items, last.mg.Template) :
                     last.calls[3].template_id = last.resps[2].body.items[i].id
          ELSE Posts(last) = {}

\* A Create for a user name written with a dot that issued its POST.
C11_Witness ==
    /\ Ran("Create")
    /\ last.mg.UserName # StripDots(last.mg.UserName)
    /\ Posts(last) = {3}
    /\ last.calls[3].uid = "u2"

\* C12: the templates lookup and the creation POST of a Create name the
\* organization of the desired state.
C12_DesiredOrganization ==
    Ran("Create")
    => \A i \in 2..Len(last.calls) : last.calls[i].org = last.mg.OrgID

\* The class, in the error taxonomy, of the errors Connect and Create
\* return; the decode errors, which are what a failed lookup ends in, have
\* none.
ErrorClass(err) ==
    CASE err \in {errTrackPCUsage, errGetPC, errGetCreds} -> "CredentialResolutionError"
      [] err = errNewClient -> "ClientConstructionError"
      [] err = errTemplateNotFound -> "ReferenceResolutionError"
      [] err = errCouldNotCreate -> "RemoteCreateError"
      [] err = errNotWorkspace -> "UnsupportedResourceError"
      [] OTHER -> "none"

\* C13: a Create one of whose lookups fails transiently returns an error
\* of the transient class and issues no POST.
C13_TransientLookupReturnsTransientError ==
    (/\ Ran("Create")
     /\ \E i \in 1..Len(last.resps) : i <= 2 /\ IsTransient(last.resps[i]))
    => /\ ReturnedError(last.res)
       /\ ErrorClass(last.res.err) = "TransientNetworkError"
       /\ Posts(last) = {}

\* The objects another reconcile may hold: those of the model, and those
\* for the user name "b" written without a dot and for the object name "x".
OtherWorkspaces ==
    {WorkspaceCR(n, u, "base", o) :
        n \in ObjectNames \cup {"x"}, u \in UserNames \cup {<<"b">>}, o \in OrgIDs}

\* C14, as claimed: an object whose user name or object name differs from those of the
\* object a Delete ran for has another external name, and its workspace is
\* not among those the Delete removed.
C14_DistinctObjectsDistinctNames ==
    Ran("Delete")
    => \A o \in OtherWorkspaces :
          (o.UserName # last.mg.UserName \/ o.name # last.mg.name)
          => /\ ExternalName(o) # ExternalName(last.mg)
             /\ TargetWorkspace(o) \notin (last.pre \ workspaces)

\* C14, as amended: an object whose user name without its dots, or whose
\* object name, differs from those of the object a Delete ran for has
\* another external name, and its workspace is not among those the Delete
\* removed.
C14_DistinctNormalizedNames ==
    Ran("Delete")
    => \A o \in OtherWorkspaces :
          (\/ SelectSeq(o.UserName, NotDot) # SelectSeq(last.mg.UserName, NotDot)
           \/ o.name # last.mg.name)
          => /\ ExternalName(o) # ExternalName(last.mg)
             /\ TargetWorkspace(o) \notin (last.pre \ workspaces)

\* A Delete that removed the object's workspace and left the workspace of
\* an object for another user on the remote service.
C14_Witness ==
    /\ Ran("Delete")
    /\ last.pre \ workspaces = {TargetWorkspace(last.mg)}
    /\ \E o \in OtherWorkspaces :
          /\ SelectSeq(o.UserName, NotDot) # SelectSeq(last.mg.UserName, NotDot)
          /\ TargetWorkspace(o) \in workspaces

\* C16: an Update issues no request and leaves the remote service's
\* workspaces as they were.
C16_UpdateWritesNothing ==
    last.op = "Update"
    => /\ last.calls = <<>>
       /\ workspaces = last.pre
       /\ last.res.outcome = "returned"

\* An Update of a Workspace that the Observe before it had found.
C16_Witness ==
    /\ prev.op = "Observe" /\ prev.res.exists
    /\ Ran("Update")
    /\ ReturnedNil(last.res)
    /\ workspaces # {}

\* C19: no call of the ExternalClient panics.
C19_NoCallPanics == last.res.outcome # "panic"

ConnectRoutes == <<"usage.Track", "kube.Get", "CommonCredentialExtractor", "newServiceFn">>
StepOK(resp) == resp.status = 0

\* C15: Connect takes its steps in order (track the usage, get the
\* ProviderConfig, extract the credentials, build the client) and stops at
\* the first that fails: a failure of one of the first three gives a
\* credential-resolution error, a failure of the factory a
\* client-construction error, both with no client; the factory is called
\* only after the credentials were resolved, with those credentials, and
\* when every step succeeds the client holds them.
C15_ConnectStepsInOrder ==
    Ran("Connect") =>
      LET n == Len(last.calls) IN
      /\ n \in 1..4
      /\ \A i \in 1..n : last.calls[i].route = ConnectRoutes[i]
      /\ \A i \in 1..(n - 1) : StepOK(last.resps[i])
      /\ last.res.outcome = "returned"
      /\ IF StepOK(last.resps[n])
         THEN /\ n = 4
              /\ last.res.err = errNil
              /\ service = newCoderService(providerConfig.credentials,
                                           providerConfig.CoderUrl)
         ELSE /\ service = NoService
              /\ ErrorClass(last.res.err) =
                    IF n = 4 THEN "ClientConstructionError"
                    ELSE "CredentialResolutionError"
      /\ n = 4 => last.calls[4].token = providerConfig.credentials

\* Connect stopped at a secret that could not be read: three steps, the
\* credentials error, no client.
C15_Witness ==
    /\ Ran("Connect")
    /\ Len(last.calls) = 3
    /\ ~StepOK(last.resps[3])
    /\ last.res.err = errGetCreds
    /\ service = NoService
    /\ pc = "connect"

\* Connect stopped at the reference: an object without one, or one naming
\* no ProviderConfig.
C15_WitnessReference ==
    /\ Ran("Connect")
    /\ Len(last.calls) \in 1..2
    /\ last.res.err \in {errTrackPCUsage, errGetPC}

\* C17, as claimed: an Observe, Create or Delete called with a cancelled
\* context starts no remote call and leaves the remote service as it was.
C17_CancelledContextStartsNoCall ==
    (/\ last.op \in {"Observe", "Create", "Delete"}
     /\ last.ctx = "cancelled")
    => /\ last.calls = <<>>
       /\ workspaces = last.pre

\* C18: two reconciles running side by side share no client; in every
\* interleaving the request a reconcile sends goes to the endpoint and
\* carries the token its own Connect resolved, which are those of its
\* object's ProviderConfig as it was at that Connect; and the next step of
\* a reconcile is never held back by the other reconcile.
C18_ReconcilesShareNothing ==
    /\ reconciles # <<>> =>
         \A w \in Reconcilers :
            LET r == reconciles[w] IN
            /\ r.sent # NoRequest =>
                  /\ r.sent.url = r.resolved.CoderUrl
                  /\ r.sent.token = r.resolved.credentials
            /\ r.pc # "connect" =>
                  /\ r.resolved = r.config
                  /\ r.service = newCoderService(r.config.credentials, r.config.CoderUrl)
                  /\ \A v \in Reconcilers \ {w} :
                        reconciles[v].pc # "connect" => reconciles[v].pCLI # r.pCLI
            /\ (r.pc # "connect" \/ Len(clients) < MaxClients) => ENABLED ConcStep(w)

\* Both reconciles have sent a request in the reconcile they are in, to
\* different endpoints with different tokens.
C18_Witness ==
    /\ reconciles # <<>>
    /\ \A w \in Reconcilers : reconciles[w].pc = "set" /\ reconciles[w].sent # NoRequest
    /\ reconciles[1].sent.url # reconciles[2].sent.url
    /\ reconciles[1].sent.token # reconciles[2].sent.token

\* The operations of the connector and of the ExternalClient.
Operations == {"Connect", "Observe", "Create", "Update", "Delete"}

\* C21: an operation handed a managed resource that is not a Workspace
\* returns the unsupported-resource error and an empty result (no client,
\* no observation, no connection details) without a credential lookup, a
\* remote request or the coder command, and leaves the remote service as
\* it was.
C21_NotWorkspaceFailsFast ==
    (last.op \in Operations /\ last.mg.kind # "Workspace")
    => /\ last.calls = <<>>
       /\ last.resps = <<>>
       /\ last.res = Returned(errNotWorkspace, FALSE, FALSE)
       /\ last.res.details = {}
       /\ ErrorClass(last.res.err) = "UnsupportedResourceError"
       /\ workspaces = last.pre
       /\ last.op = "Connect" => service = NoService

\* Delete and then Connect were handed a resource that is not a
\* Workspace: both returned the error, and Connect no client.
C21_Witness ==
    /\ last.op = "Connect"
    /\ last.mg.kind # "Workspace"
    /\ prev.op = "Delete"
    /\ prev.res.err = errNotWorkspace
    /\ last.res.err = errNotWorkspace
    /\ service = NoService

====
